---------------------------- MODULE Spec2Model ----------------------------
(***************************************************************************)
(* grim-reaper: the selection-and-harvest pass (internal/reaper/reaper.go  *)
(* and runGrimReaper) and the node drain with its concurrent pod eviction  *)
(* (internal/kubernetes: DrainNode, evictPods, evict, shouldEvict).        *)
(*                                                                         *)
(* Two state machines share this module.  Spec is one pass of              *)
(* runGrimReaper against the NodeInterface, whose calls answer             *)
(* nondeterministically.  SpecDrain is kubernetesNodeInterface.DrainNode   *)
(* called repeatedly on one node, with one goroutine per evicted pod.      *)
(***************************************************************************)
EXTENDS Integers, Sequences, FiniteSets, TLC

VARIABLES
    \* ---- the pass (runGrimReaper, theGrimReaper) ----
    nodes,            \* allNodes.Items: sequence of [name, created]
    settings,         \* config.Settings: [minNodes, maxNodesDelete, fraction]
    pc,               \* position of runGrimReaper
    nodesToReap,      \* GetNodesToReap's local of that name (the target)
    iter,             \* iterations of GetNodesToReap's outer loop completed
    consideredNodes,  \* GetNodesToReap's local of that name
    reap,             \* named result of GetNodesToReap
    passover,         \* named result of GetNodesToReap
    runErr,           \* the error runGrimReaper returns ("none" for nil)
    markIdx,          \* index into reap of MarkNodesForDestruction's loop
    harvIdx,          \* index into reap of runGrimReaper's harvest loop
    hstep,            \* position inside Harvest: "cordon" or "drain"
    calls,            \* NodeInterface calls made so far, in order: <<op, node>>
    \* ---- the drain (kubernetesNodeInterface, kubernetesPodEvictor) ----
    dryRun,           \* kubernetesNodeInterface.dryRun
    podKind,          \* the pods scheduled on the node: "plain" or "ds" owner
    gone,             \* pods the gateway has reported not-found on eviction
    dpc,              \* position of DrainNode/evictPods: "idle", "collect", "returned"
    abort,            \* the abort channel of the current evictPods call is closed
    results,          \* the results channel's buffer: sequence of <<task, error>>
    timerFired,       \* the time.After channel holds its value
    launched,         \* pods for which evictPods started a goroutine
    tpc,              \* per pod, the goroutine's position
    tres,             \* per pod, the value evict returned (to be sent)
    got,              \* per pod, the value the coordinator received from it
    recvCount,        \* iterations of evictPods' collecting loop completed
    drainResult,      \* what DrainNode returned: [kind, cause]
    lookup,           \* per pod, the daemonset lookup answer of this call
    requested,        \* per pod, eviction requests submitted in this call
    gwCalls,          \* kinds of gateway calls the current DrainNode call made
    spared,           \* daemonset pods an earlier call left alone, their daemonset found
    lastResp,         \* per pod, the answer to its latest Evict request of this call
    throttled,        \* per pod, the running evict has slept after a 429
    lateReq           \* per pod, requests the running evict made with abort closed

passVars == <<nodes, settings, pc, nodesToReap, iter, consideredNodes, reap,
              passover, runErr, markIdx, harvIdx, hstep, calls>>
drainVars == <<dryRun, podKind, gone, dpc, abort, results, timerFired,
               launched, tpc, tres, got, recvCount, drainResult, lookup,
               requested, gwCalls, spared, lastResp, throttled,
               lateReq>>
vars == <<passVars, drainVars>>

-----------------------------------------------------------------------------
(* Bounds of the model *)

MaxNodes == 3
MaxStamp == 2
MaxMinNodes == 2
MaxDelete == 2
FractionDen == 4
MaxPods == 2
MaxLateReq == 2

-----------------------------------------------------------------------------
(* Helpers *)

SeqToSet(s) == {s[i] : i \in 1..Len(s)}

NoDuplicates(s) == \A i, j \in 1..Len(s) : i # j => s[i] # s[j]

\* Node names are unique in a cluster: the i-th listed node is named i.
NodeLists ==
    UNION {[1..n -> [name : 1..MaxNodes, created : 0..MaxStamp]] : n \in 0..MaxNodes}

\* time.Now() of the selection loop: creation stamps 0..MaxStamp-1 lie before it,
\* stamp MaxStamp does not.
Now == MaxStamp

\* assertConfigValid: minNodes > 0 and 0 <= fraction < 1; maxNodesDelete is
\* not validated.  fraction is FractionNodesToDelete as numerator over FractionDen.
ConfigValid(s) ==
    /\ s.minNodes > 0
    /\ s.fraction >= 0
    /\ s.fraction < FractionDen

SettingsSpace ==
    {s \in [minNodes : 1..MaxMinNodes,
            maxNodesDelete : (-1)..MaxDelete,
            fraction : 0..(FractionDen - 1)] : ConfigValid(s)}

-----------------------------------------------------------------------------
(* theGrimReaper.GetNodesToReap *)

\* int(FractionNodesToDelete * float64(numNodes)), then the two clamps.
FloorFraction(s, numNodes) == (s.fraction * numNodes) \div FractionDen

\* Mutant: the minNodes clamp is left out.
ClampMinNodes_None(s, numNodes, t) == t

ClampMinNodes(s, numNodes, t) ==
    IF (numNodes - t) < s.minNodes THEN numNodes - s.minNodes ELSE t

ClampMaxDelete(s, t) ==
    IF t > s.maxNodesDelete THEN s.maxNodesDelete ELSE t

NodesToReap(s, numNodes) ==
    ClampMaxDelete(s, ClampMinNodes(s, numNodes, FloorFraction(s, numNodes)))

\* The inner loop: scanning i = 1..upto, the index of the not-considered node
\* with the earliest creation stamp strictly before the running minimum,
\* which starts at time.Now(); 0 stands for lowestIndex = -1.
RECURSIVE ScanOldest(_, _, _)
ScanOldest(ns, considered, upto) ==
    IF upto = 0 THEN [idx |-> 0, oldest |-> Now]
    ELSE LET prev == ScanOldest(ns, considered, upto - 1)
             n == ns[upto]
         IN  IF n.created < prev.oldest /\ n.name \notin SeqToSet(considered)
             THEN [idx |-> upto, oldest |-> n.created]
             ELSE prev

LowestIndex(ns, considered) == ScanOldest(ns, considered, Len(ns)).idx

\* consideredNodes = append(consideredNodes): nothing is appended.
AppendConsidered(considered, name) == considered

\* The loop ends by the return inside it (len(reap) == nodesToReap) or by
\* running out of iterations; both return reap and passover with a nil error.
SelectionReturns(newReap, target, newIter, numNodes) ==
    Len(newReap) = target \/ newIter = numNodes

\* runGrimReaper after a successful GetNodesToReap: MarkNodesForDestruction
\* and the harvest loop both range over reap.
AfterSelection(r) == IF Len(r) = 0 THEN "done" ELSE "mark"

ListNodes ==
    /\ pc = "start"
    /\ \E ok \in BOOLEAN :
         /\ calls' = Append(calls, <<"ListNodes", 0>>)
         /\ IF ~ok
            THEN /\ runErr' = "list"
                 /\ pc' = "done"
                 /\ UNCHANGED nodesToReap
            ELSE /\ nodesToReap' = NodesToReap(settings, Len(nodes))
                 /\ runErr' = "none"
                 /\ pc' = IF Len(nodes) = 0 THEN AfterSelection(reap) ELSE "select"
    /\ UNCHANGED <<nodes, settings, iter, consideredNodes, reap, passover,
                   markIdx, harvIdx, hstep, drainVars>>

\* One iteration of the outer loop whose lowestIndex is -1: allNodes.Items[-1].
SelectPanic ==
    /\ pc = "select"
    /\ LowestIndex(nodes, consideredNodes) = 0
    /\ pc' = "panic"
    /\ UNCHANGED <<nodes, settings, nodesToReap, iter, consideredNodes, reap,
                   passover, runErr, markIdx, harvIdx, hstep, calls, drainVars>>

\* Mutant: the error return hands back what was collected so far.
SelectionErrorResult_Partial(r, p) == [reap |-> r, passover |-> p]

\* if err != nil { return nil, nil, err }
SelectionErrorResult(r, p) == [reap |-> <<>>, passover |-> <<>>]

\* One iteration of the outer loop, HasDealBreakerPods answering ans.
SelectIter ==
    /\ pc = "select"
    /\ LowestIndex(nodes, consideredNodes) # 0
    /\ LET node == nodes[LowestIndex(nodes, consideredNodes)]
       IN  /\ consideredNodes' = AppendConsidered(consideredNodes, node.name)
           /\ calls' = Append(calls, <<"HasDealBreakerPods", node.name>>)
           /\ \E ans \in {"yes", "no", "err"} :
                IF ans = "err"
                THEN /\ reap' = SelectionErrorResult(reap, passover).reap
                     /\ passover' = SelectionErrorResult(reap, passover).passover
                     /\ runErr' = "dealbreak"
                     /\ pc' = "done"
                     /\ UNCHANGED iter
                ELSE /\ reap' = IF ans = "no" THEN Append(reap, node.name) ELSE reap
                     /\ passover' = IF ans = "yes" THEN Append(passover, node.name)
                                    ELSE passover
                     /\ iter' = iter + 1
                     /\ runErr' = "none"
                     /\ pc' = IF SelectionReturns(reap', nodesToReap, iter', Len(nodes))
                              THEN AfterSelection(reap')
                              ELSE "select"
    /\ UNCHANGED <<nodes, settings, nodesToReap, markIdx, harvIdx, hstep, drainVars>>

-----------------------------------------------------------------------------
(* theGrimReaper.MarkNodesForDestruction, theGrimReaper.Harvest and the     *)
(* harvest loop of runGrimReaper                                           *)

\* One iteration of MarkNodesForDestruction's loop.
MarkNode ==
    /\ pc = "mark"
    /\ calls' = Append(calls, <<"MarkNodeToDrain", reap[markIdx]>>)
    /\ \E ok \in BOOLEAN :
         IF ~ok
         THEN /\ runErr' = "mark"
              /\ pc' = "done"
              /\ UNCHANGED markIdx
         ELSE /\ markIdx' = markIdx + 1
              /\ runErr' = "none"
              /\ pc' = IF markIdx' > Len(reap) THEN "harvest" ELSE "mark"
    /\ UNCHANGED <<nodes, settings, nodesToReap, iter, consideredNodes, reap,
                   passover, harvIdx, hstep, drainVars>>

\* Mutant: the pass comes back to the node whose harvest failed.
AfterHarvestError_Retry(idx, r) == [pc |-> "harvest", harvIdx |-> idx]

\* runGrimReaper when Harvest returned an error: log it and return err.
AfterHarvestError(idx, r) == [pc |-> "done", harvIdx |-> idx]

\* runGrimReaper when Harvest returned nil: next node of reap, or return nil.
AfterHarvestOk(idx, r) ==
    [pc |-> IF idx + 1 > Len(r) THEN "done" ELSE "harvest", harvIdx |-> idx + 1]

\* Harvest up to its call of CordonNode.
CordonNode ==
    /\ pc = "harvest"
    /\ hstep = "cordon"
    /\ calls' = Append(calls, <<"CordonNode", reap[harvIdx]>>)
    /\ \E ok \in BOOLEAN :
         IF ~ok
         THEN /\ runErr' = "cordon"
              /\ pc' = AfterHarvestError(harvIdx, reap).pc
              /\ harvIdx' = AfterHarvestError(harvIdx, reap).harvIdx
              /\ hstep' = "cordon"
         ELSE /\ runErr' = "none"
              /\ hstep' = "drain"
              /\ UNCHANGED <<pc, harvIdx>>
    /\ UNCHANGED <<nodes, settings, nodesToReap, iter, consideredNodes, reap,
                   passover, markIdx, drainVars>>

\* Harvest from the delay after the cordon to its return; DrainNode answers
\* nil or an error (a timeout included).
DrainNodeCall ==
    /\ pc = "harvest"
    /\ hstep = "drain"
    /\ calls' = Append(calls, <<"DrainNode", reap[harvIdx]>>)
    /\ hstep' = "cordon"
    /\ \E ok \in BOOLEAN :
         IF ~ok
         THEN /\ runErr' = "drain"
              /\ pc' = AfterHarvestError(harvIdx, reap).pc
              /\ harvIdx' = AfterHarvestError(harvIdx, reap).harvIdx
         ELSE /\ runErr' = "none"
              /\ pc' = AfterHarvestOk(harvIdx, reap).pc
              /\ harvIdx' = AfterHarvestOk(harvIdx, reap).harvIdx
    /\ UNCHANGED <<nodes, settings, nodesToReap, iter, consideredNodes, reap,
                   passover, markIdx, drainVars>>

-----------------------------------------------------------------------------
(* kubernetesNodeInterface.DrainNode, listPodsToEvict, evictPods *)

Pods == 1..Len(podKind)

PodLists == UNION {[1..n -> {"plain", "ds"}] : n \in 0..MaxPods}

\* results := make(chan error, 1)
ResultsCap == 1

\* getPodDaemonSet: the pod's controller is of kind DaemonSet.
IsDaemonSetPod(kind) == kind = "ds"

\* daemonsetExists: (false, nil) on not-found, (true, err) on any other
\* error, (true, nil) when the Get succeeds.
DaemonsetExists(answer) ==
    CASE answer = "notfound" -> [exists |-> FALSE, err |-> FALSE]
      [] answer = "error"    -> [exists |-> TRUE, err |-> TRUE]
      [] OTHER               -> [exists |-> TRUE, err |-> FALSE]

\* shouldEvict ends after its daemonset branch without a return statement;
\* the value for a pod that passed the branch is taken from the design:
\* such a pod is eligible.
ShouldEvictFallThrough == TRUE

\* Mutant: the guard looks at the lookup's error only.
ShouldEvict_IgnoresExists(kind, answer) ==
    IF IsDaemonSetPod(kind) /\ DaemonsetExists(answer).err
    THEN FALSE
    ELSE ShouldEvictFallThrough

\* shouldEvict: the lookup is made for daemonset pods only.
ShouldEvict(kind, answer) ==
    IF IsDaemonSetPod(kind) /\ (DaemonsetExists(answer).exists \/ DaemonsetExists(answer).err)
    THEN FALSE
    ELSE ShouldEvictFallThrough

\* Mutant: DrainNode does not look at dryRun.
SkipsDrain_Never(dry) == FALSE

\* if m.dryRun { return nil }
SkipsDrain(dry) == dry

\* A goroutine of the current call can take no step now.
TaskAtRest(p) ==
    \/ tpc[p] \in {"none", "done"}
    \/ tpc[p] = "send" /\ Len(results) >= ResultsCap /\ dpc # "collect"

\* The goroutines of one evictPods call share channels with no other call,
\* so the next call is taken once those of the last one have come to rest.
CallerMayDrain ==
    /\ dpc \in {"idle", "returned"}
    /\ \A p \in Pods : TaskAtRest(p)

\* DrainNode's return values: nil, the listing error, "error evicting pods,
\* timed out", or errors.Wrap(e, "error evicting pod") of a goroutine's e.
Ret(kind) == [kind |-> kind, cause |-> "none"]

Wrap(e) == [kind |-> "wrap", cause |-> e]

\* Mutant: evictPods returns without closing abort.
EvictPodsReturns_NoClose(v) ==
    /\ drainResult' = v
    /\ dpc' = "returned"
    /\ abort' = abort

\* Mutant: abort is closed as soon as evictPods has its value, and the loop
\* goes on collecting.
EvictPodsReturns_ClosesEarly(v) ==
    /\ drainResult' = v
    /\ dpc' = dpc
    /\ abort' = TRUE

\* evictPods returning value v: the deferred close(abort) runs.
EvictPodsReturns(v) ==
    /\ drainResult' = v
    /\ dpc' = "returned"
    /\ abort' = TRUE

\* DrainNode in dry-run mode.
DrainNodeDryRun ==
    /\ CallerMayDrain
    /\ SkipsDrain(dryRun)
    /\ drainResult' = Ret("nil")
    /\ dpc' = "returned"
    /\ gwCalls' = {}
    /\ launched' = {}
    /\ results' = <<>>
    /\ timerFired' = FALSE
    /\ abort' = FALSE
    /\ recvCount' = 0
    /\ tpc' = [p \in Pods |-> "none"]
    /\ tres' = [p \in Pods |-> "none"]
    /\ got' = [p \in Pods |-> "none"]
    /\ lookup' = [p \in Pods |-> "none"]
    /\ requested' = [p \in Pods |-> FALSE]
    /\ spared' = spared \cup {p \in Pods : lookup[p] = "found"}
    /\ lastResp' = [p \in Pods |-> "none"]
    /\ throttled' = [p \in Pods |-> FALSE]
    /\ lateReq' = [p \in Pods |-> 0]
    /\ UNCHANGED <<dryRun, podKind, gone, passVars>>

\* DrainNode whose pod listing fails.
DrainNodeListFails ==
    /\ CallerMayDrain
    /\ ~SkipsDrain(dryRun)
    /\ drainResult' = Ret("listError")
    /\ dpc' = "returned"
    /\ gwCalls' = {"listPods"}
    /\ launched' = {}
    /\ results' = <<>>
    /\ timerFired' = FALSE
    /\ abort' = FALSE
    /\ recvCount' = 0
    /\ tpc' = [p \in Pods |-> "none"]
    /\ tres' = [p \in Pods |-> "none"]
    /\ got' = [p \in Pods |-> "none"]
    /\ lookup' = [p \in Pods |-> "none"]
    /\ requested' = [p \in Pods |-> FALSE]
    /\ spared' = spared \cup {p \in Pods : lookup[p] = "found"}
    /\ lastResp' = [p \in Pods |-> "none"]
    /\ throttled' = [p \in Pods |-> FALSE]
    /\ lateReq' = [p \in Pods |-> 0]
    /\ UNCHANGED <<dryRun, podKind, gone, passVars>>

\* DrainNode from the pod listing to the start of evictPods' collecting loop:
\* listPodsToEvict filters the listed pods through shouldEvict, evictPods
\* makes the two channels, starts one goroutine per pod and the timer.
DrainNode ==
    /\ CallerMayDrain
    /\ ~SkipsDrain(dryRun)
    /\ LET listed == Pods \ gone
           dsListed == {p \in listed : IsDaemonSetPod(podKind[p])}
       IN  \E answer \in [dsListed -> {"found", "notfound", "error"}] :
             LET ans(p) == IF p \in dsListed THEN answer[p] ELSE "none"
                 evict == {p \in listed : ShouldEvict(podKind[p], ans(p))}
             IN  /\ lookup' = [p \in Pods |-> ans(p)]
                 /\ launched' = evict
                 /\ gwCalls' = {"listPods"} \cup
                               (IF dsListed = {} THEN {} ELSE {"getDaemonSet"})
                 /\ tpc' = [p \in Pods |-> IF p \in evict THEN "check" ELSE "none"]
                 /\ IF evict = {}
                    THEN EvictPodsReturns(Ret("nil"))
                    ELSE /\ dpc' = "collect"
                         /\ abort' = FALSE
                         /\ drainResult' = Ret("none")
    /\ results' = <<>>
    /\ timerFired' = FALSE
    /\ recvCount' = 0
    /\ tres' = [p \in Pods |-> "none"]
    /\ got' = [p \in Pods |-> "none"]
    /\ requested' = [p \in Pods |-> FALSE]
    /\ spared' = spared \cup {p \in Pods : lookup[p] = "found"}
    /\ lastResp' = [p \in Pods |-> "none"]
    /\ throttled' = [p \in Pods |-> FALSE]
    /\ lateReq' = [p \in Pods |-> 0]
    /\ UNCHANGED <<dryRun, podKind, gone, passVars>>

\* The timer of time.After(EvictionTimeout) delivers its value.
TimerFire ==
    /\ dpc = "collect"
    /\ ~timerFired
    /\ timerFired' = TRUE
    /\ UNCHANGED <<dryRun, podKind, gone, dpc, abort, results, launched,
                   tpc, tres, got, recvCount, drainResult, lookup, requested,
                   gwCalls, spared, lastResp,
                   throttled, lateReq, passVars>>

\* Mutant: the collecting loop stops one result short.
LoopDone_OneShort(count, k) == count >= k - 1

\* for range pods: the loop makes one iteration per launched pod.
LoopDone(count, k) == count = k

\* Mutant: an error is counted like a nil and only reported by the last
\* iteration.
OnResult_KeepsCollecting(e, count, k) ==
    IF count + 1 = k
    THEN [ret |-> TRUE, value |-> IF e # "nil" THEN Wrap(e) ELSE Ret("nil")]
    ELSE [ret |-> FALSE, value |-> Ret("none")]

\* evictPods on receiving e: an error is wrapped and returned at once, a nil
\* is counted.
OnResult(e, count, k) ==
    IF e # "nil" THEN [ret |-> TRUE, value |-> Wrap(e)]
    ELSE IF LoopDone(count + 1, k) THEN [ret |-> TRUE, value |-> Ret("nil")]
    ELSE [ret |-> FALSE, value |-> Ret("none")]

\* select, case err := <-results
RecvResult ==
    /\ dpc = "collect"
    /\ results # <<>>
    /\ LET p == Head(results)[1]
           e == Head(results)[2]
           r == OnResult(e, recvCount, Cardinality(launched))
       IN  /\ got' = [got EXCEPT ![p] = e]
           /\ results' = Tail(results)
           /\ recvCount' = recvCount + 1
           /\ IF r.ret
              THEN EvictPodsReturns(r.value)
              ELSE UNCHANGED <<drainResult, dpc, abort>>
    /\ UNCHANGED <<dryRun, podKind, gone, timerFired, launched, tpc, tres,
                   lookup, requested, gwCalls, spared, lastResp,
                   throttled, lateReq, passVars>>

\* Mutant: the select has no timeout case.
TimeoutReady_Never == FALSE

\* The timeout case of the select can be taken.
TimeoutReady == timerFired

\* select, case <-timeout
RecvTimeout ==
    /\ dpc = "collect"
    /\ TimeoutReady
    /\ EvictPodsReturns(Ret("timeout"))
    /\ UNCHANGED <<dryRun, podKind, gone, results, timerFired, launched,
                   tpc, tres, got, recvCount, lookup, requested, gwCalls,
                   spared, lastResp,
                   throttled, lateReq, passVars>>

-----------------------------------------------------------------------------
(* kubernetesPodEvictor.evict, run by the goroutine evictPods starts *)

EvictResponses == {"accepted", "notFound", "tooManyRequests", "otherError"}

\* Mutant: a not-found answer is handed back like any other API error.
Classify_NotFoundIsError(resp) ==
    CASE resp = "accepted"        -> "unconfirmed"
      [] resp = "tooManyRequests" -> "retry"
      [] OTHER                    -> "apiError"

\* Mutant: an Evict call without an error counts as an eviction.
Classify_AcceptedIsNil(resp) ==
    CASE resp = "accepted"        -> "nil"
      [] resp = "notFound"        -> "nil"
      [] resp = "tooManyRequests" -> "retry"
      [] OTHER                    -> "apiError"

\* The classification of the Evict call's error: err == nil is reported as
\* unable-to-tell, not-found as nil, a 429 sleeps and retries, anything else
\* is wrapped and returned.
Classify(resp) ==
    CASE resp = "accepted"        -> "unconfirmed"
      [] resp = "notFound"        -> "nil"
      [] resp = "tooManyRequests" -> "retry"
      [] OTHER                    -> "apiError"

\* The head of evict's loop: select on abort, with a default.
TaskCheck(p) ==
    /\ tpc[p] = "check"
    /\ IF abort
       THEN /\ tres' = [tres EXCEPT ![p] = "aborted"]
            /\ tpc' = [tpc EXCEPT ![p] = "send"]
       ELSE /\ tpc' = [tpc EXCEPT ![p] = "request"]
            /\ UNCHANGED tres
    /\ UNCHANGED <<dryRun, podKind, gone, dpc, abort, results, timerFired,
                   launched, got, recvCount, drainResult, lookup, requested,
                   gwCalls, spared, lastResp,
                   throttled, lateReq, passVars>>

\* The default branch: the Evict call and what evict does with its answer.
TaskRequest(p) ==
    /\ tpc[p] = "request"
    /\ requested' = [requested EXCEPT ![p] = TRUE]
    /\ gwCalls' = gwCalls \cup {"evict"}
    /\ lateReq' = [lateReq EXCEPT ![p] =
                       IF abort /\ @ < MaxLateReq THEN @ + 1 ELSE @]
    /\ \E resp \in EvictResponses :
         /\ gone' = IF resp = "notFound" THEN gone \cup {p} ELSE gone
         /\ lastResp' = [lastResp EXCEPT ![p] = resp]
         /\ IF Classify(resp) = "retry"
            THEN /\ tpc' = [tpc EXCEPT ![p] = "sleep"]
                 /\ throttled' = [throttled EXCEPT ![p] = TRUE]
                 /\ UNCHANGED tres
            ELSE /\ tres' = [tres EXCEPT ![p] = Classify(resp)]
                 /\ tpc' = [tpc EXCEPT ![p] = "send"]
                 /\ UNCHANGED throttled
    /\ UNCHANGED <<dryRun, podKind, dpc, abort, results, timerFired,
                   launched, got, recvCount, drainResult, lookup, spared,
                   passVars>>

\* Mutant: after the sleep evict goes straight to the next Evict call.
AfterSleep_SkipsCheck == "request"

\* The sleep is the last statement of the for loop's body: evict is back at
\* the select on abort.
AfterSleep == "check"

\* time.Sleep(5 * time.Second) ends.
TaskWake(p) ==
    /\ tpc[p] = "sleep"
    /\ tpc' = [tpc EXCEPT ![p] = AfterSleep]
    /\ UNCHANGED <<dryRun, podKind, gone, dpc, abort, results, timerFired,
                   launched, tres, got, recvCount, drainResult, lookup, requested,
                   gwCalls, spared, lastResp,
                   throttled, lateReq, passVars>>

\* A send on the results channel goes through while its buffer has room.
CanSend(buffer) == Len(buffer) < ResultsCap

\* results <- m.evictor.evict(p, abort)
TaskSend(p) ==
    /\ tpc[p] = "send"
    /\ CanSend(results)
    /\ results' = Append(results, <<p, tres[p]>>)
    /\ tpc' = [tpc EXCEPT ![p] = "done"]
    /\ tres' = [tres EXCEPT ![p] = "none"]
    /\ throttled' = [throttled EXCEPT ![p] = FALSE]
    /\ lateReq' = [lateReq EXCEPT ![p] = 0]
    /\ UNCHANGED <<dryRun, podKind, gone, dpc, abort, timerFired, launched,
                   got, recvCount, drainResult, lookup, requested, gwCalls,
                   spared, lastResp, passVars>>

TaskStep(p) == TaskCheck(p) \/ TaskRequest(p) \/ TaskWake(p) \/ TaskSend(p)

-----------------------------------------------------------------------------
(* The drain, idle while a pass is modelled *)

DrainIdle ==
    /\ dryRun = FALSE
    /\ podKind = <<>>
    /\ gone = {}
    /\ dpc = "idle"
    /\ abort = FALSE
    /\ results = <<>>
    /\ timerFired = FALSE
    /\ launched = {}
    /\ tpc = <<>>
    /\ tres = <<>>
    /\ got = <<>>
    /\ recvCount = 0
    /\ drainResult = [kind |-> "none", cause |-> "none"]
    /\ lookup = <<>>
    /\ requested = <<>>
    /\ gwCalls = {}
    /\ spared = {}
    /\ lastResp = <<>>
    /\ throttled = <<>>
    /\ lateReq = <<>>

-----------------------------------------------------------------------------
(* The pass *)

Init ==
    /\ nodes \in NodeLists
    /\ \A i \in 1..Len(nodes) : nodes[i].name = i
    /\ settings \in SettingsSpace
    /\ pc = "start"
    /\ nodesToReap = 0
    /\ iter = 0
    /\ consideredNodes = <<>>
    /\ reap = <<>>
    /\ passover = <<>>
    /\ runErr = "none"
    /\ markIdx = 1
    /\ harvIdx = 1
    /\ hstep = "cordon"
    /\ calls = <<>>
    /\ DrainIdle

Next ==
    \/ ListNodes
    \/ SelectPanic
    \/ SelectIter
    \/ MarkNode
    \/ CordonNode
    \/ DrainNodeCall

Spec == Init /\ [][Next]_vars

-----------------------------------------------------------------------------
(* The drain: DrainNode called again and again on one node *)

PassIdle ==
    /\ nodes = <<>>
    /\ settings = [minNodes |-> 1, maxNodesDelete |-> 0, fraction |-> 0]
    /\ pc = "start"
    /\ nodesToReap = 0
    /\ iter = 0
    /\ consideredNodes = <<>>
    /\ reap = <<>>
    /\ passover = <<>>
    /\ runErr = "none"
    /\ markIdx = 1
    /\ harvIdx = 1
    /\ hstep = "cordon"
    /\ calls = <<>>

InitDrain ==
    /\ PassIdle
    /\ dryRun \in BOOLEAN
    /\ podKind \in PodLists
    /\ gone = {}
    /\ dpc = "idle"
    /\ abort = FALSE
    /\ results = <<>>
    /\ timerFired = FALSE
    /\ launched = {}
    /\ tpc = [p \in Pods |-> "none"]
    /\ tres = [p \in Pods |-> "none"]
    /\ got = [p \in Pods |-> "none"]
    /\ recvCount = 0
    /\ drainResult = Ret("none")
    /\ lookup = [p \in Pods |-> "none"]
    /\ requested = [p \in Pods |-> FALSE]
    /\ gwCalls = {}
    /\ spared = {}
    /\ lastResp = [p \in Pods |-> "none"]
    /\ throttled = [p \in Pods |-> FALSE]
    /\ lateReq = [p \in Pods |-> 0]

NextDrain ==
    \/ DrainNodeDryRun
    \/ DrainNodeListFails
    \/ DrainNode
    \/ TimerFire
    \/ RecvResult
    \/ RecvTimeout
    \/ \E p \in Pods : TaskCheck(p)
    \/ \E p \in Pods : TaskRequest(p)
    \/ \E p \in Pods : TaskWake(p)
    \/ \E p \in Pods : TaskSend(p)

SpecDrain == InitDrain /\ [][NextDrain]_vars

\* The Go scheduler runs every runnable goroutine, timers fire, sleeps end.
DrainFairness ==
    /\ WF_vars(TimerFire)
    /\ WF_vars(RecvResult)
    /\ WF_vars(RecvTimeout)
    /\ \A p \in 1..MaxPods : WF_vars(p \in Pods /\ TaskStep(p))

FairSpecDrain == SpecDrain /\ DrainFairness

-----------------------------------------------------------------------------
(* Claims about the pass *)

\* GetNodesToReap has returned reap and passover with a nil error.
SelectionSucceeded ==
    \/ pc \in {"mark", "harvest"}
    \/ pc = "done" /\ runErr \notin {"list", "dealbreak"}

CallsOf(op) == {i \in 1..Len(calls) : calls[i][1] = op}

\* C1: the reap sequence GetNodesToReap returns holds no node name twice.
C1_ReapHasNoDuplicates ==
    SelectionSucceeded => NoDuplicates(reap)

\* C2: a successful GetNodesToReap returns at most maxNodesDelete nodes in
\* reap, and never more than the computed target (stated so that an empty
\* reap meets it: for maxNodesDelete >= 0, and a target below 0 counted as 0).
C2_ReapWithinBounds ==
    (SelectionSucceeded /\ settings.maxNodesDelete >= 0) =>
        /\ Len(reap) <= settings.maxNodesDelete
        /\ Len(reap) <= (IF nodesToReap > 0 THEN nodesToReap ELSE 0)

\* C3: harvesting every node of the returned reap leaves at least minNodes
\* nodes: n - len(reap) >= minNodes, settled when selection returns, before
\* any MarkNodeToDrain, CordonNode or DrainNode call (stated for the node
\* lists where an empty reap can meet it: n >= minNodes).
C3_MinNodesRemain ==
    (SelectionSucceeded /\ Len(nodes) >= settings.minNodes) =>
        Len(nodes) - Len(reap) >= settings.minNodes

\* C4: a CordonNode or DrainNode failure ends only that node's harvest: when
\* the run is over, Harvest has been called (CordonNode attempted) for every
\* position of reap.
C4_EveryNodeAttempted ==
    (pc = "done" /\ CallsOf("CordonNode") # {}) =>
        Cardinality(CallsOf("CordonNode")) = Len(reap)


-----------------------------------------------------------------------------
(* Claims about the drain *)

\* A goroutine that has not yet produced the value evict returns.
Unresolved(p) == tpc[p] \in {"check", "request", "sleep"}

\* A goroutine whose send on results can never go through: the call has
\* returned, so nothing receives from the channel any more, and its buffer
\* is full.
BlockedForGood(p) ==
    /\ dpc = "returned"
    /\ tpc[p] = "send"
    /\ ~CanSend(results)

\* C5: after evictPods returned on the deadline or on a first hard failure,
\* every goroutine it launched terminates: none is left blocked for good on
\* delivering its result.
C5_EveryTaskTerminates ==
    (dpc = "returned" /\ drainResult.kind \in {"timeout", "wrap"}) =>
        \A p \in launched : ~BlockedForGood(p)

\* C6: evictPods always returns, and when it returns with an attempt still
\* unresolved and no failure received, it returns the timeout error.
C6_EvictPodsAlwaysReturns ==
    /\ (dpc = "collect") ~> (dpc = "returned")
    /\ [][(dpc = "collect" /\ dpc' = "returned" /\ (\E p \in launched : Unresolved(p)))
            => (drainResult'.kind = "timeout"
                \/ (drainResult'.kind = "wrap" /\ results # <<>>
                    /\ drainResult'.cause = Head(results)[2]))]_vars

C6_Witness ==
    /\ dpc = "returned"
    /\ drainResult.kind = "timeout"
    /\ \E p \in launched : tpc[p] = "sleep" /\ requested[p]

\* C7: a DrainNode that is not a dry run returns nil only after one nil result
\* was received from each goroutine it launched; the pods the guard excluded
\* have no goroutine, no eviction request and no result.
C7_SuccessMeansAllSucceeded ==
    (dpc = "returned" /\ drainResult.kind = "nil" /\ ~dryRun) =>
        /\ \A p \in launched : got[p] = "nil"
        /\ recvCount = Cardinality(launched)
        /\ \A p \in Pods \ launched :
             got[p] = "none" /\ tpc[p] = "none" /\ ~requested[p]

C7_Witness ==
    /\ dpc = "returned"
    /\ drainResult.kind = "nil"
    /\ ~dryRun
    /\ launched # {}
    /\ \E p \in Pods : lookup[p] = "found" /\ p \notin launched

\* C8: once a goroutine's hard failure has been received, evictPods has
\* closed abort and returned that failure wrapped, and it has received
\* nothing after it.
C8_HardFailureReturnsAtOnce ==
    \A p \in Pods :
        got[p] \notin {"none", "nil"} =>
            /\ dpc = "returned"
            /\ abort
            /\ drainResult = Wrap(got[p])
            /\ \A q \in Pods \ {p} : got[q] \in {"none", "nil"}
            /\ recvCount = Cardinality({q \in Pods : got[q] # "none"})

C8_Witness ==
    /\ dpc = "returned"
    /\ drainResult.kind = "wrap"
    /\ \E p, q \in launched :
         /\ got[p] = "apiError"
         /\ got[q] = "none"
         /\ Unresolved(q)

\* C9: an eviction request is submitted for a daemonset pod only if the
\* lookup of its daemonset in that call answered not-found; a pod whose
\* daemonset was found gets no goroutine and no request; a pod whose
\* daemonset is answered not-found gets its eviction attempt.
C9_DaemonSetGuard ==
    \A p \in Pods :
        IsDaemonSetPod(podKind[p]) =>
            /\ requested[p] => lookup[p] = "notfound"
            /\ lookup[p] = "found" => (p \notin launched /\ tpc[p] = "none")
            /\ lookup[p] = "notfound" => p \in launched

C9_Witness ==
    \E p \in Pods :
        /\ IsDaemonSetPod(podKind[p])
        /\ p \in spared
        /\ lookup[p] = "notfound"
        /\ requested[p]

\* C10: with dry-run set DrainNode makes no gateway call (no pod listing, no
\* daemonset lookup, no eviction request) and returns nil.
C10_DryRunTouchesNothing ==
    dryRun =>
        /\ gwCalls = {}
        /\ launched = {}
        /\ \A p \in Pods : ~requested[p] /\ lookup[p] = "none" /\ tpc[p] = "none"
        /\ dpc = "returned" => drainResult = Ret("nil")

C10_Witness ==
    /\ dryRun
    /\ dpc = "returned"
    /\ gone = {}
    /\ Len(podKind) = MaxPods

-----------------------------------------------------------------------------
(* Further claims about the pass *)

\* The creation stamps of the listed nodes are pairwise distinct.
DistinctStamps ==
    \A i, j \in 1..Len(nodes) : i # j => nodes[i].created # nodes[j].created

CreatedOf(name) == nodes[name].created

\* The number of listed nodes older than the node of that name.
Rank(name) ==
    Cardinality({i \in 1..Len(nodes) : nodes[i].created < CreatedOf(name)})

Ascending(s) == \A i, j \in 1..Len(s) : i < j => CreatedOf(s[i]) < CreatedOf(s[j])

\* C11: no node name is in both reap and passover of a result of
\* GetNodesToReap, whatever HasDealBreakerPods answered during the pass.
C11_ReapPassoverDisjoint ==
    SelectionSucceeded => SeqToSet(reap) \cap SeqToSet(passover) = {}

\* C12: for distinct creation stamps the nodes are considered strictly
\* oldest first (the k-th node queried is the k-th oldest), so reap and
\* passover each list their nodes in ascending creation order.
C12_OldestFirst ==
    (SelectionSucceeded /\ DistinctStamps) =>
        /\ \A i \in CallsOf("HasDealBreakerPods") :
             Rank(calls[i][2]) =
                 Cardinality({j \in CallsOf("HasDealBreakerPods") : j < i})
        /\ Ascending(reap)
        /\ Ascending(passover)

\* C13: when the clamped target is <= 0, GetNodesToReap returns empty reap
\* and passover with a nil error and queries HasDealBreakerPods for no node.
C13_NoTargetNoQuery ==
    (SelectionSucceeded /\ nodesToReap <= 0) =>
        /\ reap = <<>>
        /\ passover = <<>>
        /\ CallsOf("HasDealBreakerPods") = {}

\* GetNodesToReap has computed its target from a node list it obtained.
TargetComputed == pc # "start" /\ runErr # "list"

\* C14 as stated: 0 <= target <= maxNodesDelete and n - target >= minNodes
\* for every node count and all valid settings.
C14_TargetInRange ==
    TargetComputed =>
        /\ 0 <= nodesToReap
        /\ nodesToReap <= settings.maxNodesDelete
        /\ Len(nodes) - nodesToReap >= settings.minNodes

\* C14 amended: target <= maxNodesDelete and n - target >= minNodes always;
\* 0 <= target whenever n >= minNodes and maxNodesDelete >= 0.
C14_TargetInRangeAmended ==
    TargetComputed =>
        /\ nodesToReap <= settings.maxNodesDelete
        /\ Len(nodes) - nodesToReap >= settings.minNodes
        /\ (Len(nodes) >= settings.minNodes /\ settings.maxNodesDelete >= 0)
               => 0 <= nodesToReap

\* The minNodes clamp lowered a positive target.
C14_Witness ==
    /\ TargetComputed
    /\ nodesToReap > 0
    /\ nodesToReap < FloorFraction(settings, Len(nodes))
    /\ nodesToReap < settings.maxNodesDelete
    /\ Len(nodes) - nodesToReap = settings.minNodes

\* C15: when ListNodes or a HasDealBreakerPods query fails, GetNodesToReap
\* returns the error with empty reap and passover, and the pass makes no
\* MarkNodeToDrain, CordonNode or DrainNode call.
C15_SelectionAllOrNothing ==
    runErr \in {"list", "dealbreak"} =>
        /\ pc = "done"
        /\ reap = <<>>
        /\ passover = <<>>
        /\ CallsOf("MarkNodeToDrain") = {}
        /\ CallsOf("CordonNode") = {}
        /\ CallsOf("DrainNode") = {}

\* A query failed after earlier queries had put nodes in reap and passover.
C15_Witness ==
    /\ runErr = "dealbreak"
    /\ pc = "done"
    /\ iter >= 2
    /\ Cardinality(CallsOf("HasDealBreakerPods")) = iter + 1

-----------------------------------------------------------------------------
(* Further claims about the drain *)

\* What evict returned for pod p in the current call, "none" while it runs:
\* the value is about to be sent, sits in the channel, or was received.
Outcome(p) ==
    IF tpc[p] = "send" THEN tres[p]
    ELSE IF \E i \in 1..Len(results) : results[i][1] = p
         THEN LET i == CHOOSE k \in 1..Len(results) : results[k][1] = p
              IN  results[i][2]
         ELSE got[p]

\* C16: an evict whose request is answered not-found, after any number of
\* rate-limited answers, returns nil for that pod.
C16_NotFoundAfterRetriesIsSuccess ==
    \A p \in Pods :
        lastResp[p] = "notFound" =>
            /\ tpc[p] \in {"send", "done"}
            /\ Outcome(p) = "nil"

\* An evict that slept after a 429 got not-found and is returning nil.
C16_Witness ==
    \E p \in Pods :
        /\ throttled[p]
        /\ lastResp[p] = "notFound"
        /\ tpc[p] = "send"
        /\ tres[p] = "nil"

\* C17: an Evict call that returns no error makes evict return the
\* unable-to-tell error, which is neither nil nor the API error and makes
\* DrainNode fail; evict returns nil only when its last answer was not-found.
C17_NoErrorIsFailureToConfirm ==
    \A p \in Pods :
        /\ lastResp[p] = "accepted" => Outcome(p) = "unconfirmed"
        /\ lastResp[p] = "otherError" => Outcome(p) = "apiError"
        /\ Outcome(p) = "nil" => lastResp[p] = "notFound"
        /\ got[p] = "unconfirmed" =>
               /\ dpc = "returned"
               /\ drainResult = Wrap("unconfirmed")

\* DrainNode failed on a pod whose eviction was accepted without an error.
C17_Witness ==
    \E p \in Pods :
        /\ lastResp[p] = "accepted"
        /\ got[p] = "unconfirmed"
        /\ drainResult = Wrap("unconfirmed")

\* C18: a DrainNode call in which the daemonset lookup of a pod failed with an
\* error other than not-found does not return nil.
C18_LookupErrorSurfaced ==
    (dpc = "returned" /\ \E p \in Pods : lookup[p] = "error") =>
        drainResult.kind # "nil"

\* The current DrainNode call has entered evictPods.
EvictPodsCalled ==
    /\ dpc \in {"collect", "returned"}
    /\ "listPods" \in gwCalls
    /\ drainResult.kind # "listError"

\* C20: the abort channel of an evictPods call is open while the call
\* collects and closed once it has returned, on every return path; it is
\* closed in the returning step and only there; a goroutine that reaches its
\* select after the close takes the abort case and leaves the channel closed
\* for the others.
C20_AbortRaisedOnceAndBroadcast ==
    /\ [](EvictPodsCalled => (abort <=> dpc = "returned"))
    /\ [][(dpc = "collect" /\ dpc' = "returned") => (~abort /\ abort')]_vars
    /\ [][(~abort /\ abort') => dpc' = "returned"]_vars
    /\ [][\A p \in Pods :
            (tpc[p] = "check" /\ abort /\ tpc'[p] # tpc[p]) =>
                /\ tpc'[p] = "send"
                /\ tres'[p] = "aborted"
                /\ abort']_vars

\* evictPods returned and closed abort after one goroutine had exited; another
\* one, still running, then took the abort case.
C20_Witness ==
    /\ EvictPodsCalled
    /\ dpc = "returned"
    /\ abort
    /\ \E p, q \in launched :
           /\ tpc[p] = "done"
           /\ got[p] \notin {"none", "nil"}
           /\ Outcome(q) = "aborted"

-----------------------------------------------------------------------------
(* Further claims about the harvest *)

\* C19: every DrainNode call comes right after a CordonNode call on the same
\* node, every CordonNode call after a MarkNodeToDrain call on that node and
\* after all the marking, and a CordonNode failure ends the pass there: the
\* failed cordon is the last call, with no second cordon and no drain.
C19_MarkCordonDrainOrder ==
    /\ \A i \in CallsOf("DrainNode") :
           /\ i > 1
           /\ calls[i - 1] = <<"CordonNode", calls[i][2]>>
    /\ \A i \in CallsOf("CordonNode") :
           /\ \E j \in CallsOf("MarkNodeToDrain") : j < i /\ calls[j][2] = calls[i][2]
           /\ \A j \in CallsOf("MarkNodeToDrain") : j < i
    /\ runErr = "cordon" =>
           /\ pc = "done"
           /\ calls[Len(calls)][1] = "CordonNode"

\* A cordon failed on the second node of the pass, after the first node had
\* been cordoned and drained.
C19_Witness ==
    /\ runErr = "cordon"
    /\ pc = "done"
    /\ Len(calls) >= 3
    /\ calls[Len(calls) - 1][1] = "DrainNode"
    /\ calls[Len(calls) - 2][1] = "CordonNode"

-----------------------------------------------------------------------------
(* Further claims about the selection *)

\* The calls that act on a node: MarkNodeToDrain, CordonNode, DrainNode.
ActingCalls ==
    CallsOf("MarkNodeToDrain") \cup CallsOf("CordonNode") \cup CallsOf("DrainNode")

\* C22: MarkNodeToDrain, CordonNode and DrainNode are called only on nodes of
\* the returned reap; a node in passover, or never queried, gets none of them.
C22_OnlyReapIsTouched ==
    \A i \in ActingCalls :
        /\ calls[i][2] \in SeqToSet(reap)
        /\ calls[i][2] \notin SeqToSet(passover)
        /\ \E j \in CallsOf("HasDealBreakerPods") : j < i /\ calls[j][2] = calls[i][2]

\* C23: in every iteration of the selection loop the index used on the node
\* list is one of its indices, and no run ends in the index-out-of-range panic.
C23_IndexInRange ==
    /\ pc # "panic"
    /\ pc = "select" => LowestIndex(nodes, consideredNodes) \in 1..Len(nodes)

-----------------------------------------------------------------------------
(* Claims about cancellation *)

\* C21: evict looks at abort at the head of every iteration, after a sleep
\* too: from the head with abort closed it returns the abort error and makes
\* no request, so an evict makes at most one request with abort closed.
C21_AbortCheckedEveryIteration ==
    /\ [](\A p \in Pods : lateReq[p] <= 1)
    /\ [][\A p \in Pods :
            (tpc[p] = "sleep" /\ tpc'[p] # "sleep") => tpc'[p] = "check"]_vars
    /\ [][\A p \in Pods :
            (tpc[p] = "check" /\ abort /\ tpc'[p] # "check") =>
                /\ Outcome(p)' = "aborted"
                /\ requested'[p] = requested[p]
                /\ lastResp'[p] = lastResp[p]
                /\ lateReq'[p] = lateReq[p]]_vars
    /\ [][\A p \in Pods :
            (tpc[p] # "request" /\ tpc'[p] = "request") =>
                (tpc[p] = "check" /\ ~abort)]_vars

\* An evict made one request with abort closed, was rate-limited, slept, and
\* at the head of the loop returned the abort error.
C21_Witness ==
    \E p \in Pods :
        /\ lateReq[p] = 1
        /\ throttled[p]
        /\ tpc[p] = "send"
        /\ tres[p] = "aborted"

\* C24: abort is open as long as evictPods collects, no evict has returned
\* the abort error by then, evictPods never receives or returns that error,
\* and a call that returns nil has aborted no evict.
C24_NoCancelWhileCollecting ==
    /\ dpc = "collect" =>
           /\ ~abort
           /\ \A p \in Pods : Outcome(p) # "aborted"
    /\ \A p \in Pods : got[p] # "aborted"
    /\ drainResult # Wrap("aborted")
    /\ (\E p \in Pods : Outcome(p) = "aborted") =>
           /\ dpc = "returned"
           /\ drainResult.kind \in {"timeout", "wrap"}

\* evictPods gave up at the deadline and an evict, rate-limited until then,
\* returned the abort error afterwards.
C24_Witness ==
    /\ dpc = "returned"
    /\ drainResult = Ret("timeout")
    /\ \E p \in Pods : Outcome(p) = "aborted" /\ lastResp[p] = "tooManyRequests"

=============================================================================
